---- MODULE Spec2Model ----
(***************************************************************************)
(* State-machine model of the YaMDb REST API: the review domain           *)
(* (categories, titles, reviews, comments) and the account domain         *)
(* (signup, token exchange, own-profile endpoint, admin user update).      *)
(* Every handler is one action; review creation is split at the point     *)
(* where two requests can interleave (after the serializer's existence    *)
(* check, before the INSERT).                                              *)
(***************************************************************************)
EXTENDS Integers, FiniteSets, Sequences, TLC

VARIABLES
    users,        \* rows of the User table
    mail,         \* messages handed to the mail collaborator, in order
    categories,   \* slugs of the Category rows
    titles,       \* rows of the Title table (with their genre links)
    reviews,      \* rows of the Review table
    comments,     \* rows of the Comments table
    pending,      \* review-create requests validated but not yet saved
    nextTitleId,  \* auto-increment primary keys
    nextReviewId,
    nextCommentId,
    resp          \* the response of the last request handled

vars == <<users, mail, categories, titles, reviews, comments, pending,
          nextTitleId, nextReviewId, nextCommentId, resp>>

userVars == <<users, mail>>
reviewVars == <<categories, titles, reviews, comments, pending,
                nextTitleId, nextReviewId, nextCommentId>>

\* ---------------------------------------------------------------- bounds
MaxTitleId == 1
MaxReviewId == 2
MaxCommentId == 1
MaxPending == 2
MaxUsers == 3
MaxMail == 1

\* ------------------------------------------------------ program constants
MinScore == 1
MaxScore == 10

\* ------------------------------------------------------------ input sets
Roles == {"user", "moderator", "admin"}
Slugs == {"film"}
Genres == {"rock"}
NoCategory == "null"
InScores == {1, 2, MaxScore + 1}
Absent == "absent"

\* --------------------------------------------------------------- helpers
RECURSIVE SumScores(_)
SumScores(rs) ==
    IF rs = {} THEN 0
    ELSE LET r == CHOOSE x \in rs : TRUE
         IN r.score + SumScores(rs \ {r})

NoToken == "none"
Anonymous == 0

\* The last exchange: the operation, the authenticated caller's id, the
\* status code, the fields the error body names, and from the body the
\* token and the role when it carries one
Response(op, by, status, errors) ==
    [op |-> op, by |-> by, status |-> status, errors |-> errors,
     token |-> NoToken, role |-> Absent]

is_admin(u) == u.role = "admin"
is_moderator(u) == u.role = "moderator"

\* ------------------------------------------------------------ the tables
TitleIds == {t.id : t \in titles}
ReviewsOf(tid) == {r \in reviews : r.title = tid}
CommentsOf(rid) == {c \in comments : c.review = rid}

\* Review.Meta.constraints: UniqueConstraint(fields=[title, author])
unique_review(rs) ==
    \A r1, r2 \in rs :
        (r1.title = r2.title /\ r1.author = r2.author) => r1.id = r2.id

\* Review.score: SmallIntegerField(choices=SCORE_CHOICES)
ValidScore(s) == s >= MinScore /\ s <= MaxScore

\* TitleViewSet.queryset: annotate(rating=Avg('reviews__score'))
Avg(tid) ==
    IF ReviewsOf(tid) = {} THEN [null |-> TRUE, num |-> 0, den |-> 1]
    ELSE [null |-> FALSE, num |-> SumScores(ReviewsOf(tid)),
          den |-> Cardinality(ReviewsOf(tid))]

\* TitleSerializer.rating: IntegerField(read_only=True); a null attribute is
\* rendered as null, any other value through int(value)
rating(tid) ==
    LET a == Avg(tid)
    IN IF a.null THEN [null |-> TRUE, value |-> 0]
       ELSE [null |-> FALSE, value |-> a.num \div a.den]

\* ------------------------------------------------------------ permissions
\* IsAdminOrReadOnly: writes on categories, genres and titles
IsAdminOrReadOnly(u) == is_admin(u)

\* IsAuthorOrStaffOrAuthenticatedCreateOrReadOnly, object level
IsAuthorOrStaff(u, obj) ==
    obj.author = u.id \/ is_moderator(u) \/ is_admin(u)

\* ------------------------------------------------------- review domain
\* Mutant: the existence check left out
ReviewSerializer_validate_NoCheck(method, u, tid) == TRUE

\* ReviewSerializer.validate: TRUE when the data passes
ReviewSerializer_validate(method, u, tid) ==
    IF method = "PATCH" THEN TRUE
    ELSE ~ \E r \in reviews : r.author = u.id /\ r.title = tid

\* The INSERT of a Review row under the table's constraints
CanInsertReview(row) == unique_review(reviews \cup {row})

\* CategoryViewSet (CreateDestroyListViewSet): POST /categories
CategoryCreate(u, slug) ==
    /\ IF ~ IsAdminOrReadOnly(u)
       THEN /\ resp' = Response("category_create", u.id, 403, {})
            /\ UNCHANGED categories
       ELSE IF slug \in categories
       THEN /\ resp' = Response("category_create", u.id, 400, {"slug"})
            /\ UNCHANGED categories
       ELSE /\ categories' = categories \cup {slug}
            /\ resp' = Response("category_create", u.id, 201, {})
    /\ UNCHANGED <<titles, reviews, comments, pending, nextTitleId,
                   nextReviewId, nextCommentId, userVars>>

\* Mutant: on_delete=CASCADE in place of SET_NULL
CategoryCascade(ts, slug) == {t \in ts : t.category # slug}

\* Title.category: ForeignKey(Category, on_delete=SET_NULL)
CategorySetNull(ts, slug) ==
    {IF t.category = slug THEN [t EXCEPT !.category = NoCategory] ELSE t :
        t \in ts}

\* CategoryViewSet: DELETE /categories/{slug}
CategoryDelete(u, slug) ==
    /\ IF ~ IsAdminOrReadOnly(u)
       THEN /\ resp' = Response("category_delete", u.id, 403, {})
            /\ UNCHANGED <<categories, titles>>
       ELSE IF slug \notin categories
       THEN /\ resp' = Response("category_delete", u.id, 404, {})
            /\ UNCHANGED <<categories, titles>>
       ELSE /\ categories' = categories \ {slug}
            /\ titles' = CategorySetNull(titles, slug)
            /\ resp' = Response("category_delete", u.id, 204, {})
    /\ UNCHANGED <<reviews, comments, pending, nextTitleId,
                   nextReviewId, nextCommentId, userVars>>

\* TitleViewSet.create with TitlePostSerializer
TitleCreate(u, slug, genre) ==
    /\ nextTitleId <= MaxTitleId
    /\ IF ~ IsAdminOrReadOnly(u)
       THEN /\ resp' = Response("title_create", u.id, 403, {})
            /\ UNCHANGED <<titles, nextTitleId>>
       ELSE IF slug \notin categories
       THEN /\ resp' = Response("title_create", u.id, 400, {"category"})
            /\ UNCHANGED <<titles, nextTitleId>>
       ELSE /\ titles' = titles \cup
                  {[id |-> nextTitleId, category |-> slug, genre |-> genre]}
            /\ nextTitleId' = nextTitleId + 1
            /\ resp' = Response("title_create", u.id, 201, {})
    /\ UNCHANGED <<categories, reviews, comments, pending,
                   nextReviewId, nextCommentId, userVars>>

\* Review.title: ForeignKey(Title, on_delete=CASCADE)
ReviewsCascade(rs, tid) == {r \in rs : r.title # tid}

\* Comments.review: ForeignKey(Review, on_delete=CASCADE)
CommentsCascade(cs, rs) == {c \in cs : c.review \in {r.id : r \in rs}}

\* TitleViewSet: DELETE /titles/{id}
TitleDelete(u, tid) ==
    /\ IF ~ IsAdminOrReadOnly(u)
       THEN /\ resp' = Response("title_delete", u.id, 403, {})
            /\ UNCHANGED <<titles, reviews, comments>>
       ELSE IF tid \notin TitleIds
       THEN /\ resp' = Response("title_delete", u.id, 404, {})
            /\ UNCHANGED <<titles, reviews, comments>>
       ELSE /\ titles' = {t \in titles : t.id # tid}
            /\ reviews' = ReviewsCascade(reviews, tid)
            /\ comments' = CommentsCascade(comments, reviews')
            /\ resp' = Response("title_delete", u.id, 204, {})
    /\ UNCHANGED <<categories, pending, nextTitleId,
                   nextReviewId, nextCommentId, userVars>>

\* ReviewViewSet.create up to the end of serializer.is_valid:
\* field validation, then ReviewSerializer.validate
ReviewCreateValidate(u, tid, score) ==
    /\ nextReviewId + Len(pending) <= MaxReviewId
    /\ Len(pending) < MaxPending
    /\ IF ~ ValidScore(score)
       THEN /\ resp' = Response("review_create", u.id, 400, {"score"})
            /\ UNCHANGED pending
       ELSE IF ~ ReviewSerializer_validate("POST", u, tid)
       THEN /\ resp' = Response("review_create", u.id, 400,
                                {"non_field_errors"})
            /\ UNCHANGED pending
       ELSE /\ pending' = Append(pending,
                  [author |-> u.id, title |-> tid, score |-> score])
            /\ resp' = resp
    /\ UNCHANGED <<categories, titles, reviews, comments, nextTitleId,
                   nextReviewId, nextCommentId, userVars>>

RemoveAt(s, i) == SubSeq(s, 1, i - 1) \o SubSeq(s, i + 1, Len(s))

\* ReviewViewSet.perform_create: the title lookup, then serializer.save
ReviewCreateSave(i) ==
    /\ i \in 1..Len(pending)
    /\ pending' = RemoveAt(pending, i)
    /\ LET p == pending[i]
           row == [id |-> nextReviewId, title |-> p.title,
                   author |-> p.author, score |-> p.score]
       IN IF p.title \notin TitleIds
          THEN /\ resp' = Response("review_create", p.author, 404, {})
               /\ UNCHANGED <<reviews, nextReviewId>>
          ELSE IF ~ CanInsertReview(row)
          THEN \* IntegrityError: no handler catches it
               /\ resp' = Response("review_create", p.author, 500, {})
               /\ UNCHANGED <<reviews, nextReviewId>>
          ELSE /\ reviews' = reviews \cup {row}
               /\ nextReviewId' = nextReviewId + 1
               /\ resp' = Response("review_create", p.author, 201, {})
    /\ UNCHANGED <<categories, titles, comments, nextTitleId,
                   nextCommentId, userVars>>

\* ReviewViewSet update (PUT) and partial_update (PATCH) of the score
ReviewUpdate(method, u, tid, rid, score) ==
    /\ LET op == IF method = "PUT" THEN "review_put" ELSE "review_patch"
           found == {r \in ReviewsOf(tid) : r.id = rid}
       IN IF tid \notin TitleIds \/ found = {}
          THEN /\ resp' = Response(op, u.id, 404, {})
               /\ UNCHANGED reviews
          ELSE LET r == CHOOSE x \in found : TRUE
               IN IF ~ IsAuthorOrStaff(u, r)
                  THEN /\ resp' = Response(op, u.id, 403, {})
                       /\ UNCHANGED reviews
                  ELSE IF ~ ValidScore(score)
                  THEN /\ resp' = Response(op, u.id, 400, {"score"})
                       /\ UNCHANGED reviews
                  ELSE IF ~ ReviewSerializer_validate(method, u, tid)
                  THEN /\ resp' = Response(op, u.id, 400,
                                           {"non_field_errors"})
                       /\ UNCHANGED reviews
                  ELSE /\ reviews' = (reviews \ {r}) \cup
                                     {[r EXCEPT !.score = score]}
                       /\ resp' = Response(op, u.id, 200, {})
    /\ UNCHANGED <<categories, titles, comments, pending, nextTitleId,
                   nextReviewId, nextCommentId, userVars>>

\* ReviewViewSet: DELETE /titles/{id}/reviews/{id}
ReviewDelete(u, tid, rid) ==
    /\ LET found == {r \in ReviewsOf(tid) : r.id = rid}
       IN IF tid \notin TitleIds \/ found = {}
          THEN /\ resp' = Response("review_delete", u.id, 404, {})
               /\ UNCHANGED <<reviews, comments>>
          ELSE LET r == CHOOSE x \in found : TRUE
               IN IF ~ IsAuthorOrStaff(u, r)
                  THEN /\ resp' = Response("review_delete", u.id, 403, {})
                       /\ UNCHANGED <<reviews, comments>>
                  ELSE /\ reviews' = reviews \ {r}
                       /\ comments' = CommentsCascade(comments, reviews')
                       /\ resp' = Response("review_delete", u.id, 204, {})
    /\ UNCHANGED <<categories, titles, pending, nextTitleId,
                   nextReviewId, nextCommentId, userVars>>

\* CommentViewSet.perform_create
CommentCreate(u, tid, rid) ==
    /\ nextCommentId <= MaxCommentId
    /\ IF tid \notin TitleIds \/ ~ \E r \in ReviewsOf(tid) : r.id = rid
       THEN /\ resp' = Response("comment_create", u.id, 404, {})
            /\ UNCHANGED <<comments, nextCommentId>>
       ELSE /\ comments' = comments \cup
                  {[id |-> nextCommentId, review |-> rid, author |-> u.id]}
            /\ nextCommentId' = nextCommentId + 1
            /\ resp' = Response("comment_create", u.id, 201, {})
    /\ UNCHANGED <<categories, titles, reviews, pending, nextTitleId,
                   nextReviewId, userVars>>

\* ------------------------------------------------------ account domain
Usernames == {"ann", "bob", "me"}
Emails == {"ann@x", "bob@x", "bad"}

\* EmailField: the format check
WellFormedEmail(e) == e # "bad"

\* utils.get_confirmation_code: derived from the user's state
get_confirmation_code(user) == <<user.id, user.email>>

\* utils.check_confirmation_code
check_confirmation_code(user, code) == code = get_confirmation_code(user)

NoCode == <<>>
WrongCode == <<0, "bad">>
Codes == {NoCode, WrongCode} \cup {<<i, e>> : i \in 1..2, e \in {"ann@x"}}

\* UserSignUpSerializer.validate_username
validate_username(username) == username # "me"

\* UserSignUpSerializer.validate: the queryset filtered by username OR email
SignUpMatches(username, email) ==
    {u \in users : u.username = username \/ u.email = email}

\* UserSignUpSerializer.validate: "ok", "mismatch" (ValidationError) or
\* "multiple" (user.get() raises MultipleObjectsReturned)
UserSignUpSerializer_validate(username, email) ==
    LET m == SignUpMatches(username, email)
    IN IF m = {} THEN "ok"
       ELSE IF Cardinality(m) > 1 THEN "multiple"
       ELSE LET u == CHOOSE x \in m : TRUE
            IN IF u.email # email \/ u.username # username
               THEN "mismatch" ELSE "ok"

\* Mutant: create in place of get_or_create
get_or_create_AlwaysCreate(username, email) ==
    [id |-> Cardinality(users) + 1, username |-> username,
     email |-> email, role |-> "user"]

\* User.objects.get_or_create(username=..., email=...)
get_or_create(username, email) ==
    LET m == {u \in users : u.username = username /\ u.email = email}
    IN IF m # {} THEN CHOOSE u \in m : TRUE
       ELSE [id |-> Cardinality(users) + 1, username |-> username,
             email |-> email, role |-> "user"]

\* SignUpViewSet.create with UserSignUpSerializer
SignUp(username, email) ==
    /\ LET fieldErrors ==
               (IF validate_username(username) THEN {} ELSE {"username"})
               \cup (IF WellFormedEmail(email) THEN {} ELSE {"email"})
           v == UserSignUpSerializer_validate(username, email)
       IN IF fieldErrors # {}
          THEN /\ resp' = Response("signup", Anonymous, 400, fieldErrors)
               /\ UNCHANGED <<users, mail>>
          ELSE IF v = "multiple"
          THEN \* MultipleObjectsReturned: no handler catches it
               /\ resp' = Response("signup", Anonymous, 500, {})
               /\ UNCHANGED <<users, mail>>
          ELSE IF v = "mismatch"
          THEN /\ resp' = Response("signup", Anonymous, 400,
                                   {"non_field_errors"})
               /\ UNCHANGED <<users, mail>>
          ELSE LET user == get_or_create(username, email)
               IN /\ user \in users \/ Cardinality(users) < MaxUsers
                  /\ Len(mail) < MaxMail
                  /\ users' = users \cup {user}
                  /\ mail' = Append(mail,
                         [to |-> email, code |-> get_confirmation_code(user)])
                  /\ resp' = Response("signup", Anonymous, 200, {})
    /\ UNCHANGED reviewVars

\* Mutant: the user is looked up before the code's presence is checked
TokenObtain_UserFirst(username, code) ==
    /\ IF username = Absent
       THEN resp' = Response("token", Anonymous, 400, {"username"})
       ELSE LET m == {u \in users : u.username = username}
            IN IF m = {}
               THEN resp' = Response("token", Anonymous, 404, {})
               ELSE LET user == CHOOSE u \in m : TRUE
                    IN IF code = NoCode
                          \/ ~ check_confirmation_code(user, code)
                       THEN resp' = Response("token", Anonymous, 400,
                                             {"confirmation_code"})
                       ELSE resp' = [Response("token", Anonymous, 200, {})
                                     EXCEPT !.token = user.username]
    /\ UNCHANGED <<users, mail, reviewVars>>

\* TokenObtainView.post
TokenObtain(username, code) ==
    /\ IF code = NoCode
       THEN resp' = Response("token", Anonymous, 400, {"confirmation_code"})
       ELSE IF username = Absent
       THEN resp' = Response("token", Anonymous, 400, {"username"})
       ELSE LET m == {u \in users : u.username = username}
            IN IF m = {}
               THEN resp' = Response("token", Anonymous, 404, {})
               ELSE LET user == CHOOSE u \in m : TRUE
                    IN IF ~ check_confirmation_code(user, code)
                       THEN resp' = Response("token", Anonymous, 400,
                                             {"confirmation_code"})
                       ELSE resp' = [Response("token", Anonymous, 200, {})
                                     EXCEPT !.token = user.username]
    /\ UNCHANGED <<users, mail, reviewVars>>

\* Mutant: the submitted role is kept whoever asks
validate_role_NoClamp(actor, instance, role) == role

\* UserSerializer.validate_role
validate_role(actor, instance, role) ==
    IF ~ is_admin(actor) THEN instance.role ELSE role

\* UserSerializer (ModelSerializer over User): the fields that fail
\* validation, a partial update of `instance` with `data`
UserSerializer_errors(instance, data) ==
    (IF data.username # Absent
        /\ \E u \in users : u.id # instance.id /\ u.username = data.username
     THEN {"username"} ELSE {})
    \cup
    (IF data.email # Absent
        /\ (~ WellFormedEmail(data.email)
            \/ \E u \in users : u.id # instance.id /\ u.email = data.email)
     THEN {"email"} ELSE {})

\* serializer.save() on an instance: the validated fields are written
UserSerializer_update(actor, instance, data) ==
    [id |-> instance.id,
     username |-> IF data.username = Absent THEN instance.username
                  ELSE data.username,
     email |-> IF data.email = Absent THEN instance.email ELSE data.email,
     role |-> IF data.role = Absent THEN instance.role
              ELSE validate_role(actor, instance, data.role)]

\* Request bodies of the profile endpoints
UserData ==
    [username : {Absent, "bob"}, email : {Absent, "bad"},
     role : Roles \cup {Absent}]

NoData == [username |-> Absent, email |-> Absent, role |-> Absent]

AdminData ==
    [username : {Absent}, email : {Absent, "bad"},
     role : {Absent, "admin", "user"}]

\* UserViewSet.me
Me(method, actor, data) ==
    /\ IF method = "GET"
       THEN /\ resp' = Response("me_get", actor.id, 200, {})
            /\ UNCHANGED users
       ELSE LET op == IF method = "PUT" THEN "me_put" ELSE "me_patch"
            IN IF UserSerializer_errors(actor, data) # {}
               THEN \* is_valid() is not checked; save() raises
                    \* AssertionError on a serializer with errors
                    /\ resp' = Response(op, actor.id, 500, {})
                    /\ UNCHANGED users
               ELSE /\ users' = (users \ {actor}) \cup
                               {UserSerializer_update(actor, actor, data)}
                    /\ resp' = [Response(op, actor.id, 200, {}) EXCEPT
                                  !.role = IF data.role = Absent THEN Absent
                                           ELSE validate_role(actor, actor,
                                                              data.role)]
    /\ UNCHANGED <<mail, reviewVars>>

\* permissions.IsAdmin
IsAdmin(u) == is_admin(u)

\* UserViewSet.partial_update: PATCH /users/{username}
UserPatch(actor, username, data) ==
    /\ LET m == {u \in users : u.username = username}
       IN IF ~ IsAdmin(actor)
          THEN /\ resp' = Response("user_patch", actor.id, 403, {})
               /\ UNCHANGED users
          ELSE IF m = {}
          THEN /\ resp' = Response("user_patch", actor.id, 404, {})
               /\ UNCHANGED users
          ELSE LET instance == CHOOSE u \in m : TRUE
                   errors == UserSerializer_errors(instance, data)
               IN IF errors # {}
                  THEN /\ resp' = Response("user_patch", actor.id, 400, errors)
                       /\ UNCHANGED users
                  ELSE /\ users' = (users \ {instance}) \cup
                             {UserSerializer_update(actor, instance, data)}
                       /\ resp' = Response("user_patch", actor.id, 200, {})
    /\ UNCHANGED <<mail, reviewVars>>

\* ------------------------------------------------------- specifications
Init ==
    /\ users = {[id |-> 1, username |-> "root", email |-> "root@x",
                 role |-> "admin"],
                [id |-> 2, username |-> "ann", email |-> "ann@x",
                 role |-> "user"]}
    /\ mail = <<>>
    /\ categories = {}
    /\ titles = {}
    /\ reviews = {}
    /\ comments = {}
    /\ pending = <<>>
    /\ nextTitleId = 1
    /\ nextReviewId = 1
    /\ nextCommentId = 1
    /\ resp = Response("none", Anonymous, 0, {})

\* The path segments a request can name: the ids in use and the next one
TitlePaths == TitleIds \cup {nextTitleId}
ReviewPaths ==
    {<<r.title, r.id>> : r \in reviews} \cup {<<nextTitleId, nextReviewId>>}

\* Reviews under concurrent creation, with updates and deletions
Next ==
    \/ \E u \in users, slug \in Slugs : CategoryCreate(u, slug)
    \/ \E u \in users, slug \in Slugs : TitleCreate(u, slug, Genres)
    \/ \E u \in users, tid \in TitlePaths : TitleDelete(u, tid)
    \/ \E u \in users, tid \in TitlePaths, s \in InScores :
           ReviewCreateValidate(u, tid, s)
    \/ \E i \in 1..MaxPending : ReviewCreateSave(i)
    \/ \E m \in {"PUT", "PATCH"}, u \in users, p \in ReviewPaths,
          s \in InScores : ReviewUpdate(m, u, p[1], p[2], s)
    \/ \E u \in users, p \in ReviewPaths : ReviewDelete(u, p[1], p[2])

Spec == Init /\ [][Next]_vars

NextUsers ==
    \/ \E n \in Usernames, e \in Emails : SignUp(n, e)
    \/ \E n \in Usernames \cup {Absent}, c \in Codes : TokenObtain(n, c)
    \/ \E actor \in users : Me("GET", actor, NoData)
    \/ \E m \in {"PATCH", "PUT"}, actor \in users, d \in UserData :
           Me(m, actor, d)
    \/ \E actor \in users, n \in Usernames, d \in AdminData :
           UserPatch(actor, n, d)

\* Categories, titles, reviews and comments, one request at a time
NextCascade ==
    \/ \E u \in users, slug \in Slugs : CategoryCreate(u, slug)
    \/ \E u \in users, slug \in Slugs : CategoryDelete(u, slug)
    \/ \E u \in users, slug \in Slugs : TitleCreate(u, slug, Genres)
    \/ \E u \in users, tid \in TitlePaths : TitleDelete(u, tid)
    \/ \E u \in users, tid \in TitlePaths :
           pending = <<>> /\ ReviewCreateValidate(u, tid, MinScore)
    \/ ReviewCreateSave(1)
    \/ \E u \in users, p \in ReviewPaths : ReviewDelete(u, p[1], p[2])
    \/ \E u \in users, p \in ReviewPaths : CommentCreate(u, p[1], p[2])

SpecCascade == Init /\ [][NextCascade]_vars

SpecUsers == Init /\ [][NextUsers]_vars

\* ================================================================ claims

HasReview(uid, tid) == \E r \in reviews : r.author = uid /\ r.title = tid

\* C1: after any sequence of review requests there is at most one review per
\* (title, author) pair, and a create request by an author who already has
\* a review on the title is answered 400 and leaves the reviews unchanged.
C1_OneReviewPerTitleAuthor ==
    /\ [](\A r1, r2 \in reviews :
            (r1.title = r2.title /\ r1.author = r2.author) => r1 = r2)
    /\ [][\A u \in users, tid \in TitlePaths, s \in InScores :
            (HasReview(u.id, tid) /\ ReviewCreateValidate(u, tid, s))
                => (resp'.status = 400 /\ reviews' = reviews
                    /\ pending' = pending)]_vars

\* C1 witness: a second create by the author of an existing review was
\* rejected by the serializer's check.
C1_Witness ==
    /\ resp.op = "review_create"
    /\ resp.status = 400
    /\ resp.errors = {"non_field_errors"}
    /\ HasReview(resp.by, 1)

\* C2: when two creates by one author on one title interleave, at most one
\* review is stored and the losing request is answered 400.
C2_LoserGetsConflict ==
    /\ [](\A r1, r2 \in reviews :
            (r1.title = r2.title /\ r1.author = r2.author) => r1.id = r2.id)
    /\ [][\A i \in 1..MaxPending :
            (ReviewCreateSave(i) /\ pending[i].title \in TitleIds
             /\ HasReview(pending[i].author, pending[i].title))
                => resp'.status = 400]_vars

\* C7: the rating of a title response is the arithmetic mean of the scores
\* of the title's reviews (sum = rating * count), null without reviews.
C7_RatingIsMean ==
    \A t \in titles :
        IF ReviewsOf(t.id) = {} THEN rating(t.id).null
        ELSE /\ ~ rating(t.id).null
             /\ SumScores(ReviewsOf(t.id))
                    = rating(t.id).value * Cardinality(ReviewsOf(t.id))

\* C9: a PUT by the author of an existing review, with a valid score, is
\* not rejected by the one-review check: it succeeds and stores the score.
C9_AuthorCanPut ==
    [][\A u \in users, p \in ReviewPaths, s \in InScores :
        (ReviewUpdate("PUT", u, p[1], p[2], s) /\ ValidScore(s)
         /\ \E r \in reviews :
                r.id = p[2] /\ r.title = p[1] /\ r.author = u.id)
            => (resp'.status = 200
                /\ \E r \in reviews' : r.id = p[2] /\ r.score = s)]_vars

\* C8: deleting a category deletes no title (the titles that referenced it
\* stay, with a null category and the same genres, reviews and comments);
\* deleting a title removes its reviews and their comments; no review
\* references a missing title and no comment a missing review.
C8_DeleteEffects ==
    /\ [](\A r \in reviews : r.title \in TitleIds)
    /\ [](\A c \in comments : \E r \in reviews : r.id = c.review)
    /\ [][\A u \in users, slug \in Slugs :
            (resp'.status = 204 /\ CategoryDelete(u, slug))
                => (/\ slug \notin categories'
                    /\ TitleIds' = TitleIds
                    /\ \A t \in titles : \E t2 \in titles' :
                          /\ t2.id = t.id
                          /\ t2.genre = t.genre
                          /\ t2.category = IF t.category = slug
                                           THEN NoCategory ELSE t.category
                    /\ reviews' = reviews
                    /\ comments' = comments)]_vars
    /\ [][\A u \in users, tid \in TitlePaths :
            (resp'.status = 204 /\ TitleDelete(u, tid))
                => (/\ tid \notin TitleIds'
                    /\ \A r \in reviews : r.title = tid => r \notin reviews'
                    /\ \A c \in comments :
                          (\E r \in reviews :
                               r.id = c.review /\ r.title = tid)
                              => c \notin comments')]_vars

\* C8 witness: a category was deleted and a title that carries a review and
\* a comment is still there, its category now null.
C8_Witness ==
    /\ resp.op = "category_delete"
    /\ resp.status = 204
    /\ \E t \in titles :
          /\ t.category = NoCategory
          /\ \E r \in reviews : r.title = t.id /\ CommentsOf(r.id) # {}

\* Some existing user matches the username or the email of a signup, and
\* no single existing user matches both.
PartialMatch(username, email) ==
    /\ \E u \in users : u.username = username \/ u.email = email
    /\ ~ \E u \in users : u.username = username /\ u.email = email

\* C3: a signup that matches existing users only partially (also when the
\* username is one user's and the email another's) is answered 400 and
\* creates or modifies no user.
C3_PartialMatchIsConflict ==
    [][\A n \in Usernames, e \in Emails :
        (SignUp(n, e) /\ PartialMatch(n, e))
            => (resp'.status = 400 /\ users' = users)]_vars

\* C4: a signup whose (username, email) pair exactly matches an existing
\* user is answered 200, leaves the users as they are and sends that
\* user's confirmation code to the email once more.
C4_ExactMatchIdempotent ==
    [][\A n \in Usernames, e \in Emails :
        ((\E u \in users : u.username = n /\ u.email = e) /\ SignUp(n, e))
            => (/\ resp'.status = 200
                /\ users' = users
                /\ Len(mail') = Len(mail) + 1
                /\ SubSeq(mail', 1, Len(mail)) = mail
                /\ mail'[Len(mail')].to = e
                /\ \E u \in users :
                      /\ u.username = n /\ u.email = e
                      /\ mail'[Len(mail')].code = get_confirmation_code(u))]_vars

\* C4 witness: the signup of an existing pair succeeded: a message went
\* out to a user's address and no user was added to the two initial ones.
C4_Witness ==
    /\ resp.op = "signup"
    /\ resp.status = 200
    /\ Cardinality(users) = 2
    /\ mail # <<>>
    /\ \E u \in users : u.email = mail[Len(mail)].to

\* C5 as stated: an unknown username is answered 404; a known username
\* with an absent or non-matching code is answered 400; a token is issued
\* only for a known username with that user's code.
C5_TokenOutcomes ==
    [][\A n \in Usernames, c \in Codes :
        TokenObtain(n, c) =>
            LET m == {u \in users : u.username = n}
            IN /\ m = {} => resp'.status = 404
               /\ (m # {} /\ \A u \in m : ~ check_confirmation_code(u, c))
                      => resp'.status = 400
               /\ resp'.token # NoToken
                      => \E u \in m : check_confirmation_code(u, c)
                                      /\ resp'.token = u.username]_vars

\* C5 amended: an absent code is answered 400 whether or not the username
\* is known; with a code present, an unknown username is answered 404 and a
\* known username with a non-matching code 400; a token is issued only for
\* a known username with that user's code.
C5_TokenOutcomesAmended ==
    [][\A n \in Usernames, c \in Codes :
        (resp'.op = "token" /\ TokenObtain(n, c)) =>
            LET m == {u \in users : u.username = n}
            IN /\ c = NoCode => resp'.status = 400
               /\ (c # NoCode /\ m = {}) => resp'.status = 404
               /\ (m # {} /\ \A u \in m : ~ check_confirmation_code(u, c))
                      => resp'.status = 400
               /\ resp'.token # NoToken
                      => \E u \in m : check_confirmation_code(u, c)
                                      /\ resp'.token = u.username
               /\ (\E u \in m : check_confirmation_code(u, c))
                      => (resp'.status = 200 /\ resp'.token = n)]_vars

\* C5 witness: a token request for an unknown username was answered 404.
C5_Witness == resp.op = "token" /\ resp.status = 404

RoleChanged ==
    \E u \in users, v \in users' : u.id = v.id /\ u.role # v.role

C10_InvalidProfileIs400 ==
    [][\A m \in {"PATCH", "PUT"}, actor \in users, d \in UserData :
        (/\ Me(m, actor, d)
         /\ \/ d.email = "bad"
            \/ /\ d.username # Absent
               /\ \E u \in users :
                     u.id # actor.id /\ u.username = d.username)
            => (/\ resp'.status = 400
                /\ resp'.errors # {}
                /\ users' = users)]_vars

====
